---- MODULE Spec2Model ----
(***************************************************************************)
(* Signed-exchange demo server: startup initialisation of the two signing  *)
(* identities (primary, alternate), the certificate-chain handler and the  *)
(* signed-exchange handler with its route table.                           *)
(*                                                                         *)
(* Strings built by concatenation in the source are tuples of their parts  *)
(* (<<"https://", host, path>>); the empty string and nil byte slices are  *)
(* the empty tuple.  Hashes are injective tags around what they digest.    *)
(***************************************************************************)
EXTENDS Integers, Sequences, FiniteSets, TLC

\* ------------------------------------------------------------------ bounds
\* Most certificates a PEM file holds.
MaxChainLen == 2
\* Largest wall-clock reading (seconds) a request is handled at.
MaxNow == 1
\* Longest payload handed to the header-integrity oracle on its own.
MaxPayloadLen == 2

\* ------------------------------------------------------- program constants
\* MI record size passed to MiEncodePayload.
RecordSize == 4096
\* Validity window of a signature, in hours (time.Hour * 24).
ValidityHours == 24
\* Seconds in time.Hour.
SecondsPerHour == 3600
\* The signing date is taken this many seconds before time.Now().
DateSkew == 10
\* http.StatusOK, http.StatusNotFound, http.StatusInternalServerError.
StatusOK == 200
StatusNotFound == 404
StatusInternalServerError == 500

VARIABLES pc, prvKey, certs, certMessage, demoDomainName, payloads, initLog,
          req, params, resp, probe

vars == <<pc, prvKey, certs, certMessage, demoDomainName, payloads, initLog,
          req, params, resp, probe>>

\* The two signing identities: "primary" is certs/prvKey/certMessage/
\* demoDomainName/certURLPath, "alt" is altCerts/altPrvKey/altCertMessage/
\* altDemoDomainName/altCertURLPath.
Ident == {"primary", "alt"}

Other(i) ==
  IF i = "primary" THEN "alt" ELSE "primary"

NoErr == "<nil>"

\* A nil crypto.PrivateKey.
NoKey == [owner |-> "<nil>"]

certKeyFileName ==
  [i \in Ident |-> IF i = "primary" THEN "cert/cert.key" ELSE "cert/alt_cert.key"]

certPemFileName ==
  [i \in Ident |-> IF i = "primary" THEN "cert/cert.pem" ELSE "cert/alt_cert.pem"]

certURLPath ==
  [i \in Ident |-> IF i = "primary" THEN "/cert/cert.cbor" ELSE "/cert/alt_cert.cbor"]

\* Subject common name of the leaf certificate in each identity's PEM file.
CommonName ==
  [i \in Ident |-> IF i = "primary" THEN "example.test" ELSE "alt.example.test"]

\* ------------------------------------------------------------- http.Header
HeaderKeys ==
  {"Content-Type", "Cache-Control", "Access-Control-Allow-Origin", "Link",
   "X-Content-Type-Options", "Content-Encoding", "Digest"}

\* textproto.CanonicalMIMEHeaderKey on the keys the program uses.
CanonicalKey(k) ==
  CASE k = "content-type" -> "Content-Type"
    [] k = "cache-control" -> "Cache-Control"
    [] k = "link" -> "Link"
    [] OTHER -> k

EmptyHeader == [k \in HeaderKeys |-> <<>>]

HeaderAdd(h, k, v) ==
  [h EXCEPT ![CanonicalKey(k)] = Append(@, v)]

HeaderSet(h, k, v) ==
  [h EXCEPT ![CanonicalKey(k)] = <<v>>]

HeaderGet(h, k) ==
  IF h[CanonicalKey(k)] = <<>> THEN "" ELSE Head(h[CanonicalKey(k)])

\* ----------------------------------------------------- http.ResponseWriter
\* status 0: nothing written yet.
NewResponseWriter ==
  [header |-> EmptyHeader, status |-> 0, body |-> [tag |-> "none"]]

\* http.Error: text/plain, nosniff, the status, then the message and a newline.
HttpError(w, msg, code) ==
  [w EXCEPT !.header = HeaderSet(HeaderSet(@, "Content-Type", "text/plain; charset=utf-8"),
                                 "X-Content-Type-Options", "nosniff"),
            !.status = code,
            !.body = [tag |-> "text", text |-> <<msg, "\n">>]]

HttpNotFound(w) ==
  HttpError(w, "404 page not found", StatusNotFound)

\* w.Write without a preceding WriteHeader sends 200.
WriterWrite(w, b) ==
  [w EXCEPT !.status = IF @ = 0 THEN StatusOK ELSE @, !.body = b]

\* ------------------------------------------------------------ certificates
\* What the environment holds for one identity at startup.
KeyFiles == {"ok", "missing", "notpem", "badder"}

\* The OCSP responder lists a leaf certificate may carry.
OCSPServerLists == {<<>>, <<"http://ocsp.example.test/">>}

CertFiles ==
  {[readable |-> FALSE, n |-> 0, servers |-> <<>>]} \cup
  {[readable |-> TRUE, n |-> k, servers |-> s] :
     k \in 0..MaxChainLen, s \in OCSPServerLists}

NetOutcomes == {"ok", "reqerr", "badurl", "unreachable", "readfail"}

StartupEnv ==
  [key : KeyFiles, cert : CertFiles, net : NetOutcomes]

\* ioutil.ReadFile of the PEM file, error discarded: nil when unreadable.
ReadCertPem(i, env) ==
  IF env.cert.readable THEN [owner |-> i, n |-> env.cert.n, servers |-> env.cert.servers]
  ELSE [owner |-> i, n |-> 0, servers |-> <<>>]

\* signedexchange.ParseCertificates: the certificates of the PEM blocks, leaf first.
ParseCertificates(pem) ==
  [j \in 1..pem.n |->
     [cn |-> IF j = 1 THEN CommonName[pem.owner] ELSE "Issuer CA",
      OCSPServer |-> IF j = 1 THEN pem.servers ELSE <<>>,
      raw |-> <<pem.owner, j>>]]

\* getOCSP with the length check off by one: a lone leaf passes and stands in
\* for its own issuer.
getOCSP_OffByOne(cs, net) ==
  IF Len(cs) < 1 THEN
    [out |-> <<>>, err |-> "failed to parse cert", requests |-> 0]
  ELSE IF Len(cs[1].OCSPServer) = 0 THEN
    [out |-> <<>>, err |-> "No OCSPServer", requests |-> 0]
  ELSE IF net = "reqerr" THEN
    [out |-> <<>>, err |-> "ocsp.CreateRequest", requests |-> 0]
  ELSE IF net = "badurl" THEN
    [out |-> <<>>, err |-> "http.NewRequest", requests |-> 0]
  ELSE IF net = "unreachable" THEN
    [out |-> <<>>, err |-> "http.Client.Do", requests |-> 1]
  ELSE IF net = "readfail" THEN
    [out |-> <<>>, err |-> "ioutil.ReadAll", requests |-> 1]
  ELSE
    [out |-> <<"ocsp-response", cs[1].raw, cs[Len(cs)].raw>>, err |-> NoErr, requests |-> 1]

\* getOCSP: out is the response body (<<>> is nil), requests counts the
\* HTTP requests issued.
getOCSP(cs, net) ==
  IF Len(cs) < 2 THEN
    [out |-> <<>>, err |-> "failed to parse cert", requests |-> 0]
  ELSE IF Len(cs[1].OCSPServer) = 0 THEN
    [out |-> <<>>, err |-> "No OCSPServer", requests |-> 0]
  ELSE IF net = "reqerr" THEN
    [out |-> <<>>, err |-> "ocsp.CreateRequest", requests |-> 0]
  ELSE IF net = "badurl" THEN
    [out |-> <<>>, err |-> "http.NewRequest", requests |-> 0]
  ELSE IF net = "unreachable" THEN
    [out |-> <<>>, err |-> "http.Client.Do", requests |-> 1]
  ELSE IF net = "readfail" THEN
    [out |-> <<>>, err |-> "ioutil.ReadAll", requests |-> 1]
  ELSE
    [out |-> <<"ocsp-response", cs[1].raw, cs[2].raw>>, err |-> NoErr, requests |-> 1]

\* createCertChainCBOR: certurl.NewCertChain refuses an empty list; otherwise
\* the CBOR of {certificate list, OCSP response, SCT}.
createCertChainCBOR(cs, ocsp, sct) ==
  IF Len(cs) = 0 THEN
    [out |-> <<>>, err |-> "cert-chain: cert chain must not be empty"]
  ELSE
    [out |-> <<"cert-chain", [j \in 1..Len(cs) |-> cs[j].raw], ocsp, sct>>, err |-> NoErr]

getSubjectCommonName(pem) ==
  IF Len(ParseCertificates(pem)) = 0 THEN [out |-> "", err |-> "Empty certificate"]
  ELSE [out |-> ParseCertificates(pem)[1].cn, err |-> NoErr]

\* signedexchange.ParsePrivateKey on the decoded key block.
ParsePrivateKey(i, env) ==
  IF env.key = "ok" THEN [out |-> [owner |-> i], err |-> NoErr]
  ELSE [out |-> NoKey, err |-> "failed to parse private key"]

\* pem.Decode returns a nil block for a missing or non-PEM key file; init
\* dereferences it.
KeyDecodePanics(env) ==
  env.key \in {"missing", "notpem"}

\* ---------------------------------------------------------------------- URLs
\* "https://" + host + path.
Https(host, path) ==
  <<"https://", host, path>>

\* Host values whose "https://"+host+path url.Parse refuses (invalid escape).
MalformedHosts == {"%zz"}

NilUrl == [ok |-> FALSE]

\* url.Parse: nil (and an error the callers discard) on a malformed authority.
ParseUrl(s) ==
  IF s[2] \in MalformedHosts THEN NilUrl
  ELSE [ok |-> TRUE,
        scheme |-> IF s[1] = "https://" THEN "https" ELSE "",
        host |-> s[2],
        path |-> s[3]]

\* ------------------------------------------------------- signedexchange (MI)
Version1b3 == "1b3"

MethodGet == "GET"

Min(a, b) ==
  IF a < b THEN a ELSE b

\* The payload cut into records of at most size bytes, in order.
RECURSIVE Chunks(_, _)
Chunks(payload, size) ==
  IF Len(payload) = 0 THEN <<>>
  ELSE <<SubSeq(payload, 1, Min(size, Len(payload)))>> \o
       Chunks(SubSeq(payload, Min(size, Len(payload)) + 1, Len(payload)), size)

\* mi-sha256 proof of the first record: each record is hashed with the proof
\* of the record after it.
RECURSIVE MiProof(_)
MiProof(chunks) ==
  IF Len(chunks) = 0 THEN <<"H", <<>>, <<>>>>
  ELSE IF Len(chunks) = 1 THEN <<"H", chunks[1], <<>>>>
  ELSE <<"H", chunks[1], MiProof(Tail(chunks))>>

NewExchange(ver, uri, method, reqHeader, status, resHeader, payload) ==
  [Version |-> ver, RequestURI |-> uri, RequestMethod |-> method,
   RequestHeaders |-> reqHeader, ResponseStatus |-> status,
   ResponseHeaders |-> resHeader, Payload |-> payload,
   Signature |-> [signed |-> FALSE]]

\* Exchange.MiEncodePayload: refuses a response that already has a
\* Content-Encoding or a record size that is not positive; otherwise encodes
\* the payload and adds Content-Encoding and Digest to the response headers.
MiEncodePayload(e, recordSize) ==
  IF HeaderGet(e.ResponseHeaders, "Content-Encoding") # "" THEN
    [e |-> e, err |-> "signedexchange: response already has content-encoding header"]
  ELSE IF recordSize <= 0 THEN
    [e |-> e, err |-> "mice: invalid record size"]
  ELSE
    [e |-> [e EXCEPT
              !.Payload = <<"mi-sha256-03", recordSize, Chunks(e.Payload, recordSize)>>,
              !.ResponseHeaders =
                 HeaderAdd(HeaderAdd(@, "Content-Encoding", "mi-sha256-03"),
                           "Digest",
                           <<"mi-sha256-03=", MiProof(Chunks(e.Payload, recordSize))>>)],
     err |-> NoErr]

\* Exchange.DumpExchangeHeaders: the canonical serialisation of everything of
\* the exchange that is not the payload or the signature.
DumpExchangeHeaders(e) ==
  <<"headers", e.Version, e.RequestURI, e.RequestMethod, e.ResponseStatus,
    e.ResponseHeaders>>

\* "sha256-" + base64(sha256(b)).
Sha256Label(b) ==
  <<"sha256-", b>>

\* Exchange.AddSignatureHeader with Signer s: an unusable private key is an
\* error; a nil CertUrl or ValidityUrl is dereferenced (panic).
AddSignatureHeader(e, s) ==
  IF s.PrivKey = NoKey THEN
    [e |-> e, err |-> "signedexchange: unknown private key type", panicked |-> FALSE]
  ELSE IF ~s.ValidityUrl.ok \/ ~s.CertUrl.ok THEN
    [e |-> e, err |-> NoErr, panicked |-> TRUE]
  ELSE
    [e |-> [e EXCEPT !.Signature =
              [signed |-> TRUE,
               sig |-> <<"sig", s.PrivKey, DumpExchangeHeaders(e), s.Rand>>,
               validityUrl |-> s.ValidityUrl,
               certUrl |-> s.CertUrl,
               certSha256 |-> IF Len(s.Certs) = 0 THEN <<>> ELSE <<"sha256", s.Certs[1].raw>>,
               key |-> s.PrivKey,
               date |-> s.Date,
               expires |-> s.Expires]],
     err |-> NoErr, panicked |-> FALSE]

\* zeroReader.Read(b): every byte of b set to zero, len(b) and no error.
zeroReaderRead(b) ==
  [b |-> [i \in 1..Len(b) |-> 0], n |-> Len(b), err |-> NoErr]

\* -------------------------------------------------------------- sxg handler
\* The Signer with the expiry computed without time.Hour.
NewSigner_ExpiresWithoutHour(p) ==
  [Date |-> p.date,
   Expires |-> p.date + ValidityHours,
   Certs |-> p.certs,
   CertUrl |-> ParseUrl(p.certUrl),
   ValidityUrl |-> ParseUrl(p.validityUrl),
   PrivKey |-> p.prvKey,
   Rand |-> p.rand]

\* The Signer createExchange builds.
NewSigner(p) ==
  [Date |-> p.date,
   Expires |-> p.date + ValidityHours * SecondsPerHour,
   Certs |-> p.certs,
   CertUrl |-> ParseUrl(p.certUrl),
   ValidityUrl |-> ParseUrl(p.validityUrl),
   PrivKey |-> p.prvKey,
   Rand |-> p.rand]

\* createExchange: e is the exchange (meaningful when err = NoErr and not
\* panicked); params is *params as the call leaves it (resHeader is the map
\* the exchange holds).
createExchange(p) ==
  LET h == HeaderAdd(p.resHeader, "content-type", p.contentType)
      e0 == NewExchange(p.ver, p.contentUrl, MethodGet, EmptyHeader, StatusOK, h, p.payload)
      mi == MiEncodePayload(e0, RecordSize)
      sg == AddSignatureHeader(mi.e, NewSigner(p))
  IN IF mi.err # NoErr THEN
       [ok |-> FALSE, e |-> e0, err |-> mi.err, panicked |-> FALSE,
        params |-> [p EXCEPT !.resHeader = h]]
     ELSE IF sg.panicked THEN
       [ok |-> FALSE, e |-> mi.e, err |-> NoErr, panicked |-> TRUE,
        params |-> [p EXCEPT !.resHeader = mi.e.ResponseHeaders]]
     ELSE IF sg.err # NoErr THEN
       [ok |-> FALSE, e |-> mi.e, err |-> sg.err, panicked |-> FALSE,
        params |-> [p EXCEPT !.resHeader = mi.e.ResponseHeaders]]
     ELSE
       [ok |-> TRUE, e |-> sg.e, err |-> NoErr, panicked |-> FALSE,
        params |-> [p EXCEPT !.resHeader = mi.e.ResponseHeaders]]

\* The oracle's response headers without the cors branch.
IntegrityResHeader_NoCors(contentType, cors) ==
  HeaderAdd(HeaderAdd(EmptyHeader, "cache-control", "public, max-age=600"),
            "content-type", contentType)

\* The response headers getHeaderIntegrity gives its exchange.
IntegrityResHeader(contentType, cors) ==
  LET h1 == HeaderAdd(EmptyHeader, "cache-control", "public, max-age=600")
      h2 == HeaderAdd(h1, "content-type", contentType)
  IN IF cors THEN HeaderAdd(h2, "Access-Control-Allow-Origin", "*") ELSE h2

\* getHeaderIntegrity treating an empty payload as an encoding failure.
getHeaderIntegrity_EmptyPayloadFails(domainAndPath, payload, contentType, host, cors) ==
  LET e0 == NewExchange(Version1b3, <<"https://">> \o domainAndPath, MethodGet,
                        EmptyHeader, StatusOK, IntegrityResHeader(contentType, cors),
                        payload)
      mi == MiEncodePayload(e0, RecordSize)
  IN IF mi.err # NoErr \/ Len(payload) = 0 THEN <<>>
     ELSE Sha256Label(DumpExchangeHeaders(mi.e))

\* getHeaderIntegrity building the content URL from the request's Host.
getHeaderIntegrity_UrlFromHost(domainAndPath, payload, contentType, host, cors) ==
  LET e0 == NewExchange(Version1b3, Https(host, domainAndPath[2]), MethodGet,
                        EmptyHeader, StatusOK, IntegrityResHeader(contentType, cors),
                        payload)
      mi == MiEncodePayload(e0, RecordSize)
  IN IF mi.err # NoErr THEN <<>>
     ELSE Sha256Label(DumpExchangeHeaders(mi.e))

\* getHeaderIntegrity: "" (<<>>) when the MI encoding fails.
getHeaderIntegrity(domainAndPath, payload, contentType, host, cors) ==
  LET e0 == NewExchange(Version1b3, <<"https://">> \o domainAndPath, MethodGet,
                        EmptyHeader, StatusOK, IntegrityResHeader(contentType, cors),
                        payload)
      mi == MiEncodePayload(e0, RecordSize)
  IN IF mi.err # NoErr THEN <<>>
     ELSE Sha256Label(DumpExchangeHeaders(mi.e))

\* serveExchange writing the exchange headers and body whatever createExchange
\* returned.
serveExchange_IgnoresError(p, w) ==
  LET r == createExchange(p) IN
  IF r.panicked THEN
    [w |-> w, params |-> r.params, err |-> NoErr, panicked |-> TRUE]
  ELSE
    [w |-> WriterWrite(
             [w EXCEPT !.header =
                HeaderSet(HeaderSet(@, "Content-Type", "application/signed-exchange;v=b3"),
                          "X-Content-Type-Options", "nosniff")],
             [tag |-> "exchange", e |-> r.e]),
     params |-> r.params, err |-> r.err, panicked |-> FALSE]

\* serveExchange: the response writer, the parameters and the outcome.
serveExchange(p, w) ==
  LET r == createExchange(p) IN
  IF r.panicked THEN
    [w |-> w, params |-> r.params, err |-> NoErr, panicked |-> TRUE]
  ELSE IF r.err # NoErr THEN
    [w |-> HttpError(w, r.err, StatusInternalServerError), params |-> r.params,
     err |-> r.err, panicked |-> FALSE]
  ELSE
    [w |-> WriterWrite(
             [w EXCEPT !.header =
                HeaderSet(HeaderSet(@, "Content-Type", "application/signed-exchange;v=b3"),
                          "X-Content-Type-Options", "nosniff")],
             [tag |-> "exchange", e |-> r.e]),
     params |-> r.params, err |-> NoErr, panicked |-> FALSE]

\* ----------------------------------------------------------------- payloads
PayloadNames ==
  {"amptestnocdn", "v0js", "nikko_320_jpg", "nikko_640_jpg", "nikko_320_webp",
   "nikko_640_webp", "wapuro_mincho", "fonttest"}

\* The bytes of the files under contents/, as two-byte stand-ins.
FileBytes ==
  [n \in PayloadNames |->
     CASE n = "amptestnocdn" -> <<1, 0>>
       [] n = "v0js" -> <<2, 0>>
       [] n = "nikko_320_jpg" -> <<3, 0>>
       [] n = "nikko_640_jpg" -> <<4, 0>>
       [] n = "nikko_320_webp" -> <<5, 0>>
       [] n = "nikko_640_webp" -> <<6, 0>>
       [] n = "wapuro_mincho" -> <<7, 0>>
       [] OTHER -> <<8, 0>>]

\* ioutil.ReadFile of each content file, error discarded.
ReadPayloads(readable) ==
  [n \in PayloadNames |-> IF readable THEN FileBytes[n] ELSE <<>>]

defaultPayload == <<9, 0>>

\* --------------------------------------------------------------- route table
SxgType == "application/signed-exchange;v=b3"

Variants == "accept;image/jpeg,image/webp"

\* rel="alternate" link on the HTTP response.
Alternate(host, sxgPath, anchor, variants, variantKey) ==
  [rel |-> "alternate", target |-> Https(host, sxgPath), type |-> SxgType,
   variants |-> variants, variantKey |-> variantKey, anchor |-> anchor]

\* rel="allowed-alt-sxg" link inside the signed response headers.
AllowedAlt(target, variants, variantKey, integrity) ==
  [rel |-> "allowed-alt-sxg", target |-> target, variants |-> variants,
   variantKey |-> variantKey, integrity |-> integrity]

\* rel="preload" link inside the signed response headers.
Preload(target, as, rest) ==
  [rel |-> "preload", target |-> target, as |-> as, rest |-> rest]

\* The exchangeParams with the all-zero reader as randomness source.
BaseParams_ZeroRand(host, now) ==
  [built |-> TRUE,
   ver |-> Version1b3,
   contentUrl |-> Https(demoDomainName["primary"], "/hello.html"),
   certUrl |-> Https(host, certURLPath["primary"]),
   validityUrl |-> Https(demoDomainName["primary"], "/cert/null.validity.msg"),
   contentType |-> "text/html; charset=utf-8",
   resHeader |-> EmptyHeader,
   payload |-> defaultPayload,
   date |-> now - DateSkew,
   rand |-> "zeroReader",
   certs |-> certs["primary"],
   prvKey |-> prvKey["primary"]]

\* The exchangeParams every request starts from.
BaseParams(host, now) ==
  [built |-> TRUE,
   ver |-> Version1b3,
   contentUrl |-> Https(demoDomainName["primary"], "/hello.html"),
   certUrl |-> Https(host, certURLPath["primary"]),
   validityUrl |-> Https(demoDomainName["primary"], "/cert/null.validity.msg"),
   contentType |-> "text/html; charset=utf-8",
   resHeader |-> EmptyHeader,
   payload |-> defaultPayload,
   date |-> now - DateSkew,
   rand |-> "nil",
   certs |-> certs["primary"],
   prvKey |-> prvKey["primary"]]

\* The switch to the alternate identity without the private key.
AltIdentity_KeepsPrimaryKey(p, host, urlPath) ==
  [p EXCEPT !.certs = certs["alt"],
            !.contentUrl = Https(demoDomainName["alt"], urlPath),
            !.certUrl = Https(host, certURLPath["alt"]),
            !.validityUrl = Https(demoDomainName["alt"], "/cert/null.validity.msg")]

\* The five assignments that switch a scenario to the alternate identity.
AltIdentity(p, host, urlPath) ==
  [p EXCEPT !.certs = certs["alt"],
            !.prvKey = prvKey["alt"],
            !.contentUrl = Https(demoDomainName["alt"], urlPath),
            !.certUrl = Https(host, certURLPath["alt"]),
            !.validityUrl = Https(demoDomainName["alt"], "/cert/null.validity.msg")]

PAdd(p, k, v) ==
  [p EXCEPT !.resHeader = HeaderAdd(@, k, v)]

WAdd(w, k, v) ==
  [w EXCEPT !.header = HeaderAdd(@, k, v)]

PrimaryUrl(path) ==
  Https(demoDomainName["primary"], path)

AltUrl(path) ==
  Https(demoDomainName["alt"], path)

CacheControl600 == "public, max-age=600"

AmpPage(p) ==
  [p EXCEPT !.contentUrl = PrimaryUrl("/amptest/amptestnocdn.html"),
            !.payload = payloads["amptestnocdn"]]

\* b[1:]; panics on an empty slice.
SliceFrom1(b) ==
  IF Len(b) = 0 THEN <<>> ELSE Tail(b)

\* The v0.js link triple: alternate on w, allowed-alt-sxg and preload in params.
JsLinks(sc, host, jsPayload) ==
  [sc EXCEPT
     !.w = WAdd(@, "link", Alternate(host, "/sxg/v0.sxg", PrimaryUrl("/amptest/js/v0.js"), "", "")),
     !.p = PAdd(PAdd(@, "link",
                     AllowedAlt(PrimaryUrl("/amptest/js/v0.js"), "", "",
                                getHeaderIntegrity(<<demoDomainName["primary"], "/amptest/js/v0.js">>,
                                                   jsPayload, "text/javascript", host, FALSE))),
                "link", Preload(PrimaryUrl("/amptest/js/v0.js"), "script", ""))]

ImgSrcSet == "nikko_640.jpg 640w, nikko_320.jpg 320w; (max-width: 640px) 100vw, 640px"

\* One image's alternate link on w.
ImgAlternate(sc, host, sxgPath, img, variants, variantKey) ==
  [sc EXCEPT !.w = WAdd(@, "link", Alternate(host, sxgPath, PrimaryUrl(img), variants, variantKey))]

\* One image's allowed-alt-sxg link in params.
ImgAllowed(sc, host, img, payload, contentType, variants, variantKey) ==
  [sc EXCEPT !.p = PAdd(@, "link",
                        AllowedAlt(PrimaryUrl(img), variants, variantKey,
                                   getHeaderIntegrity(<<demoDomainName["primary"], img>>,
                                                      payload, contentType, host, FALSE)))]

ImgPreload(sc) ==
  [sc EXCEPT !.p = PAdd(@, "link",
                        Preload(PrimaryUrl("/amptest/img/nikko_640.jpg"), "image", ImgSrcSet))]

\* A leaf route that does not assign params.contentUrl.
Leaf_KeepsContentUrl(sc, urlPath, contentType, payload) ==
  [sc EXCEPT !.p = PAdd([@ EXCEPT !.contentType = contentType,
                                  !.payload = payload],
                        "cache-control", CacheControl600),
             !.w = WAdd(@, "cache-control", CacheControl600)]

\* A leaf resource of the primary identity: content URL, type, payload and
\* cache-control in params and on w.
Leaf(sc, urlPath, contentType, payload) ==
  [sc EXCEPT !.p = PAdd([@ EXCEPT !.contentUrl = PrimaryUrl(urlPath),
                                  !.contentType = contentType,
                                  !.payload = payload],
                        "cache-control", CacheControl600),
             !.w = WAdd(@, "cache-control", CacheControl600)]

\* A font leaf of the alternate identity.
FontLeaf(sc, host, cors) ==
  LET p1 == PAdd([AltIdentity(sc.p, host, "/fonts/wapuro-mincho.woff2")
                    EXCEPT !.payload = payloads["wapuro_mincho"],
                           !.contentType = "font/woff2"],
                 "cache-control", CacheControl600)
  IN [sc EXCEPT !.p = IF cors THEN PAdd(p1, "Access-Control-Allow-Origin", "*") ELSE p1]

\* A page that preloads the font.
FontPage(sc, host, sxgPath, cors) ==
  [sc EXCEPT
     !.w = WAdd(@, "link", Alternate(host, sxgPath, AltUrl("/fonts/wapuro-mincho.woff2"), "", "")),
     !.p = PAdd(PAdd([@ EXCEPT !.contentUrl = PrimaryUrl("/amptest/fonttest.html"),
                               !.payload = payloads["fonttest"]],
                     "link",
                     AllowedAlt(AltUrl("/fonts/wapuro-mincho.woff2"), "", "",
                                getHeaderIntegrity(<<demoDomainName["alt"], "/fonts/wapuro-mincho.woff2">>,
                                                   payloads["wapuro_mincho"], "font/woff2", host, cors))),
                "link", Preload(AltUrl("/fonts/wapuro-mincho.woff2"), "font", "font/woff2; crossorigin"))]

\* A stylesheet page: alternate on w, allowed-alt-sxg and preload in params.
CssLinks(sc, host, sxgPath, css) ==
  [sc EXCEPT
     !.w = WAdd(@, "link", Alternate(host, sxgPath, PrimaryUrl(css), "", "")),
     !.p = PAdd(PAdd(@, "link",
                     AllowedAlt(PrimaryUrl(css), "", "",
                                getHeaderIntegrity(<<demoDomainName["primary"], css>>,
                                                   <<>>, "text/css", host, FALSE))),
                "link", Preload(PrimaryUrl(css), "style", ""))]

AmpScenario(sc) ==
  [sc EXCEPT !.p = AmpPage(@)]

SxgRoutes ==
  {"/sxg/hello.sxg", "/sxg/alt.sxg", "/sxg/wapuro-mincho.woff2.sxg", "/sxg/fonttest.sxg",
   "/sxg/cors_wapuro-mincho.woff2.sxg", "/sxg/cors_fonttest.sxg", "/sxg/amptestnocdn.sxg",
   "/sxg/amptestnocdn_js_preload.sxg", "/sxg/amptestnocdn_js_img_preload.sxg",
   "/sxg/amptestnocdn_js_img_vary_preload.sxg", "/sxg/amptestnocdn_js_preload_error.sxg",
   "/sxg/amptestnocdn_js_img_preload_error.sxg", "/sxg/v0.sxg", "/sxg/nikko_320_jpg.sxg",
   "/sxg/nikko_320_webp.sxg", "/sxg/nikko_640_jpg.sxg", "/sxg/nikko_640_webp.sxg",
   "/sxg/loop.sxg", "/sxg/a_css.sxg", "/sxg/b_css.sxg"}

\* The scenario of one route: params and the response writer as they stand
\* when serveExchange is called; panicked when building them panics.
Scenario(path, host, now) ==
  LET sc0 == [p |-> BaseParams(host, now), w |-> NewResponseWriter, panicked |-> FALSE]
      n320 == "/amptest/img/nikko_320.jpg"
      n640 == "/amptest/img/nikko_640.jpg"
      js == JsLinks(sc0, host, payloads["v0js"])
      imgAlts == ImgAlternate(ImgAlternate(js, host, "/sxg/nikko_320_jpg.sxg", n320, "", ""),
                              host, "/sxg/nikko_640_jpg.sxg", n640, "", "")
      varyAlts ==
        ImgAlternate(
          ImgAlternate(
            ImgAlternate(
              ImgAlternate(js, host, "/sxg/nikko_320_jpg.sxg", n320, Variants, "image/jpeg"),
              host, "/sxg/nikko_320_webp.sxg", n320, Variants, "image/webp"),
            host, "/sxg/nikko_640_jpg.sxg", n640, Variants, "image/jpeg"),
          host, "/sxg/nikko_640_webp.sxg", n640, Variants, "image/webp")
  IN
  CASE path = "/sxg/hello.sxg" -> sc0
    [] path = "/sxg/alt.sxg" ->
         [sc0 EXCEPT !.p = AltIdentity(@, host, "/hello.html")]
    [] path = "/sxg/wapuro-mincho.woff2.sxg" -> FontLeaf(sc0, host, FALSE)
    [] path = "/sxg/fonttest.sxg" ->
         FontPage(sc0, host, "/sxg/wapuro-mincho.woff2.sxg", FALSE)
    [] path = "/sxg/cors_wapuro-mincho.woff2.sxg" -> FontLeaf(sc0, host, TRUE)
    [] path = "/sxg/cors_fonttest.sxg" ->
         FontPage(sc0, host, "/sxg/cors_wapuro-mincho.woff2.sxg", TRUE)
    [] path = "/sxg/amptestnocdn.sxg" -> AmpScenario(sc0)
    [] path = "/sxg/amptestnocdn_js_preload.sxg" -> AmpScenario(js)
    [] path = "/sxg/amptestnocdn_js_img_preload.sxg" ->
         AmpScenario(ImgPreload(
           ImgAllowed(
             ImgAllowed(imgAlts, host, n320, payloads["nikko_320_jpg"], "image/jpeg", "", ""),
             host, n640, payloads["nikko_640_jpg"], "image/jpeg", "", "")))
    [] path = "/sxg/amptestnocdn_js_img_vary_preload.sxg" ->
         AmpScenario(ImgPreload(
           ImgAllowed(
             ImgAllowed(
               ImgAllowed(
                 ImgAllowed(varyAlts, host, n320, payloads["nikko_320_jpg"], "image/jpeg",
                            Variants, "image/jpeg"),
                 host, n320, payloads["nikko_320_webp"], "image/webp", Variants, "image/webp"),
               host, n640, payloads["nikko_640_jpg"], "image/jpeg", Variants, "image/jpeg"),
             host, n640, payloads["nikko_640_webp"], "image/webp", Variants, "image/webp")))
    [] path = "/sxg/amptestnocdn_js_preload_error.sxg" ->
         IF Len(payloads["v0js"]) = 0
         THEN [sc0 EXCEPT !.panicked = TRUE]
         ELSE AmpScenario(JsLinks(sc0, host, SliceFrom1(payloads["v0js"])))
    [] path = "/sxg/amptestnocdn_js_img_preload_error.sxg" ->
         IF Len(payloads["nikko_320_jpg"]) = 0 \/ Len(payloads["nikko_640_jpg"]) = 0
         THEN [imgAlts EXCEPT !.panicked = TRUE]
         ELSE AmpScenario(ImgPreload(
                ImgAllowed(
                  ImgAllowed(imgAlts, host, n320, SliceFrom1(payloads["nikko_320_jpg"]),
                             "image/jpeg", "", ""),
                  host, n640, SliceFrom1(payloads["nikko_640_jpg"]), "image/jpeg", "", "")))
    [] path = "/sxg/v0.sxg" ->
         Leaf(sc0, "/amptest/js/v0.js", "text/javascript", payloads["v0js"])
    [] path = "/sxg/nikko_320_jpg.sxg" -> Leaf(sc0, n320, "image/jpeg", payloads["nikko_320_jpg"])
    [] path = "/sxg/nikko_320_webp.sxg" -> Leaf(sc0, n320, "image/webp", payloads["nikko_320_webp"])
    [] path = "/sxg/nikko_640_jpg.sxg" -> Leaf(sc0, n640, "image/jpeg", payloads["nikko_640_jpg"])
    [] path = "/sxg/nikko_640_webp.sxg" -> Leaf(sc0, n640, "image/webp", payloads["nikko_640_webp"])
    [] path = "/sxg/loop.sxg" ->
         AmpScenario(CssLinks(sc0, host, "/sxg/a_css.sxg", "/amptest/css/a.css"))
    [] path = "/sxg/a_css.sxg" ->
         Leaf(CssLinks(sc0, host, "/sxg/b_css.sxg", "/amptest/css/b.css"),
              "/amptest/css/a.css", "text/css", <<>>)
    [] path = "/sxg/b_css.sxg" ->
         Leaf(CssLinks(sc0, host, "/sxg/a_css.sxg", "/amptest/css/a.css"),
              "/amptest/css/b.css", "text/css", <<>>)
    [] OTHER -> sc0

\* signedExchangeHandler: what the client receives, the exchangeParams after
\* the call and the outcome.  A panic leaves the client without a response
\* (net/http recovers it and drops the connection).
signedExchangeHandler(path, host, now) ==
  IF path \notin SxgRoutes THEN
    [w |-> HttpError(NewResponseWriter, "signedExchangeHandler", StatusNotFound),
     params |-> BaseParams(host, now), err |-> NoErr, panicked |-> FALSE]
  ELSE
    LET sc == Scenario(path, host, now) IN
    IF sc.panicked THEN
      [w |-> NewResponseWriter, params |-> sc.p, err |-> NoErr, panicked |-> TRUE]
    ELSE
      LET r == serveExchange(sc.p, sc.w) IN
      IF r.panicked THEN [r EXCEPT !.w = NewResponseWriter] ELSE r

\* ----------------------------------------------------------------- startup
NoCall == [called |-> FALSE]

\* What init() went through for one identity: the steps whose error it
\* discarded, the chain artifact it built and its getOCSP call.
NoLog == [failed |-> {}, chain |-> <<>>, ocsp |-> NoCall]

\* One identity's part of init(): every error is discarded; the steps that
\* returned one are kept in log.failed.
InitIdentity(i, env) ==
  LET key == ParsePrivateKey(i, env)
      pem == ReadCertPem(i, env)
      cs == ParseCertificates(pem)
      o == getOCSP(cs, env.net)
      msg == createCertChainCBOR(cs, o.out, <<>>)
      cn == getSubjectCommonName(pem)
  IN [prvKey |-> key.out,
      certs |-> cs,
      certMessage |-> msg.out,
      demoDomainName |-> cn.out,
      log |-> [failed |->
                 (IF key.err # NoErr THEN {"key"} ELSE {}) \cup
                 (IF ~env.cert.readable \/ Len(cs) = 0 THEN {"cert"} ELSE {}) \cup
                 (IF o.err # NoErr THEN {"ocsp"} ELSE {}) \cup
                 (IF msg.err # NoErr THEN {"chain"} ELSE {}) \cup
                 (IF cn.err # NoErr THEN {"cn"} ELSE {}),
               chain |-> msg.out,
               ocsp |-> [called |-> TRUE, ncerts |-> Len(cs),
                         nservers |-> IF Len(cs) = 0 THEN 0 ELSE Len(cs[1].OCSPServer),
                         net |-> IF o.requests > 0 THEN env.net ELSE "unused",
                         out |-> o.out, err |-> o.err,
                         requests |-> o.requests]]]

NoRequest == [kind |-> "none"]

NoParams == [built |-> FALSE]

NoResponse == [header |-> EmptyHeader, status |-> 0, body |-> [tag |-> "none"],
               err |-> NoErr, panicked |-> FALSE]

Idle == [stage |-> "idle"]

Init ==
  /\ pc = "boot"
  /\ prvKey = [i \in Ident |-> NoKey]
  /\ certs = [i \in Ident |-> <<>>]
  /\ certMessage = [i \in Ident |-> <<>>]
  /\ demoDomainName = [i \in Ident |-> ""]
  /\ payloads = [n \in PayloadNames |-> <<>>]
  /\ initLog = [i \in Ident |-> NoLog]
  /\ req = NoRequest
  /\ params = NoParams
  /\ resp = NoResponse
  /\ probe = Idle

\* init(): primary identity, then alternate, then the content files.  A nil
\* PEM block for either key file panics and the process dies before main.
GoInit ==
  /\ pc = "boot"
  /\ \E envP \in StartupEnv, envA \in StartupEnv, contents \in BOOLEAN :
       IF KeyDecodePanics(envP) THEN
         /\ pc' = "crashed"
         /\ initLog' = [initLog EXCEPT !["primary"].failed = {"key"}]
         /\ UNCHANGED <<prvKey, certs, certMessage, demoDomainName, payloads>>
       ELSE IF KeyDecodePanics(envA) THEN
         LET p == InitIdentity("primary", envP) IN
         /\ pc' = "crashed"
         /\ prvKey' = [prvKey EXCEPT !["primary"] = p.prvKey]
         /\ certs' = [certs EXCEPT !["primary"] = p.certs]
         /\ certMessage' = [certMessage EXCEPT !["primary"] = p.certMessage]
         /\ demoDomainName' = [demoDomainName EXCEPT !["primary"] = p.demoDomainName]
         /\ initLog' = [initLog EXCEPT !["primary"] = p.log, !["alt"].failed = {"key"}]
         /\ UNCHANGED payloads
       ELSE
         LET r == [i \in Ident |-> InitIdentity(i, IF i = "primary" THEN envP ELSE envA)] IN
         /\ pc' = "initialized"
         /\ prvKey' = [i \in Ident |-> r[i].prvKey]
         /\ certs' = [i \in Ident |-> r[i].certs]
         /\ certMessage' = [i \in Ident |-> r[i].certMessage]
         /\ demoDomainName' = [i \in Ident |-> r[i].demoDomainName]
         /\ initLog' = [i \in Ident |-> r[i].log]
         /\ payloads' = ReadPayloads(contents)
  /\ UNCHANGED <<req, params, resp, probe>>

\* main(): registers the handlers and reaches http.ListenAndServe.
Main ==
  /\ pc = "initialized"
  /\ pc' = "serving"
  /\ UNCHANGED <<prvKey, certs, certMessage, demoDomainName, payloads, initLog,
                 req, params, resp, probe>>

\* ------------------------------------------------------ certificate handler
respondWithCertificateMessage(w) ==
  WriterWrite([w EXCEPT !.header =
                 HeaderSet(HeaderSet(@, "Content-Type", "application/cert-chain+cbor"),
                           "Cache-Control", "public, max-age=100")],
              [tag |-> "chain", bytes |-> certMessage["primary"]])

\* certHandler without the path comparison.
certHandler_AnyPath(w, path) ==
  respondWithCertificateMessage(w)

certHandler(w, path) ==
  IF path = certURLPath["primary"] THEN respondWithCertificateMessage(w)
  ELSE HttpNotFound(w)

CertPaths ==
  {certURLPath[i] : i \in Ident} \cup {"/cert/null.validity.msg"}

CertRequest ==
  /\ pc = "serving"
  /\ req = NoRequest
  /\ \E path \in CertPaths :
     \E w \in {certHandler(NewResponseWriter, path)} :
       /\ req' = [kind |-> "cert", path |-> path]
       /\ resp' = [header |-> w.header, status |-> w.status, body |-> w.body,
                   err |-> NoErr, panicked |-> FALSE]
  /\ params' = NoParams
  /\ UNCHANGED <<pc, prvKey, certs, certMessage, demoDomainName, payloads, initLog, probe>>

\* ------------------------------------------------------------- sxg requests
\* Host header values of a request: a well-formed one and one url.Parse refuses.
Hosts == {"sxg.example.test"} \cup MalformedHosts

SxgPaths == SxgRoutes \cup {"/sxg/unknown.sxg"}

SxgRequest ==
  /\ pc = "serving"
  /\ req = NoRequest
  /\ \E path \in SxgPaths, host \in Hosts, now \in 0..MaxNow :
     \E r \in {signedExchangeHandler(path, host, now)} :
       /\ req' = [kind |-> "sxg", path |-> path, host |-> host, now |-> now]
       /\ params' = r.params
       /\ resp' = [header |-> r.w.header, status |-> r.w.status, body |-> r.w.body,
                   err |-> r.err, panicked |-> r.panicked]
  /\ UNCHANGED <<pc, prvKey, certs, certMessage, demoDomainName, payloads, initLog, probe>>

\* The handler has returned and the response is sent: the server takes the
\* next request.
Complete ==
  /\ pc = "serving"
  /\ req # NoRequest
  /\ req' = NoRequest
  /\ params' = NoParams
  /\ resp' = NoResponse
  /\ UNCHANGED <<pc, prvKey, certs, certMessage, demoDomainName, payloads, initLog, probe>>

Next ==
  \/ GoInit
  \/ Main
  \/ CertRequest
  \/ SxgRequest
  \/ Complete

Spec == Init /\ [][Next]_vars

\* ------------------------------------------- header-integrity oracle, alone
\* getHeaderIntegrity and createExchange applied to the same (URL, payload,
\* content type, cors flag), with both identities loaded without error.
GoodEnv == [key |-> "ok",
            cert |-> [readable |-> TRUE, n |-> 2, servers |-> <<"http://ocsp.example.test/">>],
            net |-> "ok"]

Bytes == {0, 1}

RECURSIVE SeqsUpTo(_, _)
SeqsUpTo(S, n) ==
  IF n = 0 THEN {<<>>}
  ELSE SeqsUpTo(S, n - 1) \cup {Append(q, x) : q \in {r \in SeqsUpTo(S, n - 1) : Len(r) = n - 1}, x \in S}

ProbeDomainAndPaths ==
  {<<"example.test", "/amptest/js/v0.js">>, <<"alt.example.test", "/fonts/wapuro-mincho.woff2">>}

ProbeContentTypes == {"text/javascript", "font/woff2", ""}

\* The response headers a leaf route gives params before serveExchange.
LeafResHeader(cors) ==
  IF cors
  THEN HeaderAdd(HeaderAdd(EmptyHeader, "cache-control", CacheControl600),
                 "Access-Control-Allow-Origin", "*")
  ELSE HeaderAdd(EmptyHeader, "cache-control", CacheControl600)

\* The exchangeParams of a leaf route for the probe's inputs.
ProbeParams(in) ==
  [BaseParams("sxg.example.test", 0)
     EXCEPT !.contentUrl = <<"https://">> \o in.domainAndPath,
            !.contentType = in.contentType,
            !.payload = in.payload,
            !.resHeader = LeafResHeader(in.cors)]

InitHI ==
  /\ pc = "serving"
  /\ prvKey = [i \in Ident |-> InitIdentity(i, GoodEnv).prvKey]
  /\ certs = [i \in Ident |-> InitIdentity(i, GoodEnv).certs]
  /\ certMessage = [i \in Ident |-> InitIdentity(i, GoodEnv).certMessage]
  /\ demoDomainName = [i \in Ident |-> InitIdentity(i, GoodEnv).demoDomainName]
  /\ payloads = ReadPayloads(TRUE)
  /\ initLog = [i \in Ident |-> InitIdentity(i, GoodEnv).log]
  /\ req = NoRequest
  /\ params = NoParams
  /\ resp = NoResponse
  /\ \E dp \in ProbeDomainAndPaths, pl \in SeqsUpTo(Bytes, MaxPayloadLen),
        ct \in ProbeContentTypes, host \in Hosts, cors \in BOOLEAN :
       probe = [stage |-> "args",
                in |-> [domainAndPath |-> dp, payload |-> pl, contentType |-> ct,
                        host |-> host, cors |-> cors],
                hiDone |-> FALSE, hi |-> <<>>,
                ceDone |-> FALSE, ce |-> [ok |-> FALSE]]

ProbeIntegrity ==
  /\ probe.stage = "args"
  /\ ~probe.hiDone
  /\ probe' = [probe EXCEPT !.hiDone = TRUE,
                            !.hi = getHeaderIntegrity(probe.in.domainAndPath, probe.in.payload,
                                                      probe.in.contentType, probe.in.host,
                                                      probe.in.cors)]
  /\ UNCHANGED <<pc, prvKey, certs, certMessage, demoDomainName, payloads, initLog,
                 req, params, resp>>

ProbeExchange ==
  /\ probe.stage = "args"
  /\ ~probe.ceDone
  /\ probe' = [probe EXCEPT !.ceDone = TRUE,
                            !.ce = createExchange(ProbeParams(probe.in))]
  /\ UNCHANGED <<pc, prvKey, certs, certMessage, demoDomainName, payloads, initLog,
                 req, params, resp>>

NextHI ==
  \/ ProbeIntegrity
  \/ ProbeExchange

SpecHI == InitHI /\ [][NextHI]_vars

\* ------------------------------------- getHeaderIntegrity called repeatedly
\* One argument tuple (URL, payload, content type, cors flag) is fixed; the
\* function is called with it again and again, each time with some Host,
\* while the process is restarted with other certificate files in between,
\* so that the globals differ from call to call.
MaxCalls == 2

NoProbeCalls == <<>>

\* Startup environments of a restart: every file in place, or the
\* certificate file unreadable (init() then leaves the domain name empty).
CallEnvs ==
  {GoodEnv, [GoodEnv EXCEPT !.cert = [readable |-> FALSE, n |-> 0, servers |-> <<>>]]}

InitCalls ==
  /\ pc = "serving"
  /\ \E envP \in CallEnvs, envA \in CallEnvs :
       LET r == [i \in Ident |-> InitIdentity(i, IF i = "primary" THEN envP ELSE envA)] IN
       /\ prvKey = [i \in Ident |-> r[i].prvKey]
       /\ certs = [i \in Ident |-> r[i].certs]
       /\ certMessage = [i \in Ident |-> r[i].certMessage]
       /\ demoDomainName = [i \in Ident |-> r[i].demoDomainName]
       /\ initLog = [i \in Ident |-> r[i].log]
  /\ payloads = ReadPayloads(TRUE)
  /\ req = NoRequest
  /\ params = NoParams
  /\ resp = NoResponse
  /\ \E dp \in ProbeDomainAndPaths, pl \in SeqsUpTo(Bytes, MaxPayloadLen),
        ct \in {"text/css"}, cors \in BOOLEAN :
       probe = [stage |-> "calls",
                in |-> [domainAndPath |-> dp, payload |-> pl, contentType |-> ct,
                        cors |-> cors],
                calls |-> NoProbeCalls]

\* The older getHeaderIntegrity(path, payload, contentType, ver, host): the
\* URL is "https://" + demoDomainName + path and content-type is the only
\* response header.
getHeaderIntegrityGae(path, payload, contentType, ver, host) ==
  LET e0 == NewExchange(ver, Https(demoDomainName["primary"], path), MethodGet,
                        EmptyHeader, StatusOK,
                        HeaderAdd(EmptyHeader, "content-type", contentType), payload)
      mi == MiEncodePayload(e0, RecordSize)
  IN IF mi.err # NoErr THEN <<>>
     ELSE Sha256Label(DumpExchangeHeaders(mi.e))

\* One call of each getHeaderIntegrity in the serving process: the Host it
\* was given, the globals it ran under and the results.
CallIntegrity ==
  /\ pc = "serving"
  /\ probe.stage = "calls"
  /\ Len(probe.calls) < MaxCalls
  /\ \E host \in Hosts :
       probe' = [probe EXCEPT !.calls =
                   Append(@, [host |-> host,
                              names |-> demoDomainName,
                              out |-> getHeaderIntegrity(probe.in.domainAndPath,
                                                         probe.in.payload,
                                                         probe.in.contentType, host,
                                                         probe.in.cors),
                              gaeUrl |-> Https(demoDomainName["primary"],
                                               probe.in.domainAndPath[2]),
                              gaeOut |-> getHeaderIntegrityGae(probe.in.domainAndPath[2],
                                                               probe.in.payload,
                                                               probe.in.contentType,
                                                               Version1b3, host)])]
  /\ UNCHANGED <<pc, prvKey, certs, certMessage, demoDomainName, payloads, initLog,
                 req, params, resp>>

\* The process exits and is started again: init() runs under the files
\* then in place and main() serves.
Restart ==
  /\ pc = "serving"
  /\ probe.stage = "calls"
  /\ \E envP \in CallEnvs, envA \in CallEnvs :
       LET r == [i \in Ident |-> InitIdentity(i, IF i = "primary" THEN envP ELSE envA)] IN
       /\ prvKey' = [i \in Ident |-> r[i].prvKey]
       /\ certs' = [i \in Ident |-> r[i].certs]
       /\ certMessage' = [i \in Ident |-> r[i].certMessage]
       /\ demoDomainName' = [i \in Ident |-> r[i].demoDomainName]
       /\ initLog' = [i \in Ident |-> r[i].log]
  /\ UNCHANGED <<pc, payloads, req, params, resp, probe>>

NextCalls ==
  \/ CallIntegrity
  \/ Restart

SpecCalls == InitCalls /\ [][NextCalls]_vars

\* ------------------------------------------------ concurrent request handlers
\* net/http runs every request in its own goroutine.  MaxHandlers handlers
\* are in flight at once and their steps interleave; http.Header maps are
\* objects with an address in heap, so that two handlers holding the same map
\* would see each other's Add calls.
MaxHandlers == 2

MaxRequests == 2

Handlers == 1..MaxHandlers

\* The requests the handlers are given.
ConcSxgPaths == {"/sxg/hello.sxg", "/sxg/v0.sxg", "/sxg/a_css.sxg", "/sxg/unknown.sxg"}

ConcRequests ==
  {[kind |-> "sxg", path |-> path, host |-> host, now |-> 0] :
     path \in ConcSxgPaths, host \in Hosts} \cup
  {[kind |-> "cert", path |-> certURLPath["primary"], host |-> "sxg.example.test", now |-> 0]}

\* http.Header{} allocating a map that always comes back as the last one made.
NewHeader_Reused(heap) ==
  IF Len(heap) = 0 THEN [heap |-> Append(heap, EmptyHeader), addr |-> 1]
  ELSE [heap |-> heap, addr |-> Len(heap)]

\* http.Header{}: a new, empty map at a fresh address.
NewHeader(heap) ==
  [heap |-> Append(heap, EmptyHeader), addr |-> Len(heap) + 1]

\* The map base after the Add calls that built adds from an empty map.
HeaderMerge(base, adds) ==
  [k \in HeaderKeys |-> base[k] \o adds[k]]

\* The process-wide variables init() wrote.
Globals ==
  [prvKey |-> prvKey, certs |-> certs, certMessage |-> certMessage,
   demoDomainName |-> demoDomainName, payloads |-> payloads]

IdleHandler == [at |-> "idle"]

InitConc ==
  /\ pc = "serving"
  /\ prvKey = [i \in Ident |-> InitIdentity(i, GoodEnv).prvKey]
  /\ certs = [i \in Ident |-> InitIdentity(i, GoodEnv).certs]
  /\ certMessage = [i \in Ident |-> InitIdentity(i, GoodEnv).certMessage]
  /\ demoDomainName = [i \in Ident |-> InitIdentity(i, GoodEnv).demoDomainName]
  /\ initLog = [i \in Ident |-> InitIdentity(i, GoodEnv).log]
  /\ \E contents \in BOOLEAN : payloads = ReadPayloads(contents)
  /\ req = NoRequest
  /\ params = NoParams
  /\ resp = NoResponse
  /\ probe = [stage |-> "conc", boot |-> Globals, begun |-> 0, heap |-> <<>>,
              handler |-> [k \in Handlers |-> IdleHandler]]

ConcUnchanged ==
  UNCHANGED <<pc, prvKey, certs, certMessage, demoDomainName, payloads, initLog,
              req, params, resp>>

\* A handler is entered: net/http hands it w with its header map, and
\* signedExchangeHandler makes params with resHeader: http.Header{}.
Begin(k) ==
  /\ probe.stage = "conc"
  /\ probe.handler[k].at = "idle"
  /\ probe.begun < MaxRequests
  /\ \E rq \in ConcRequests :
       LET wh == NewHeader(probe.heap)
           rh == NewHeader(wh.heap)
       IN probe' = [probe EXCEPT
                      !.begun = @ + 1,
                      !.heap = IF rq.kind = "sxg" THEN rh.heap ELSE wh.heap,
                      !.handler[k] =
                         [at |-> "entered", rq |-> rq, wh |-> wh.addr,
                          rh |-> IF rq.kind = "sxg" THEN rh.addr ELSE 0,
                          p |-> IF rq.kind = "sxg" THEN BaseParams(rq.host, rq.now)
                                ELSE NoParams]]
  /\ ConcUnchanged

\* The switch of signedExchangeHandler: the scenario's assignments to params
\* and its Add calls on params.resHeader and w.Header(); the default case
\* answers 404.
Route(k) ==
  /\ probe.stage = "conc"
  /\ probe.handler[k].at = "entered"
  /\ probe.handler[k].rq.kind = "sxg"
  /\ LET h == probe.handler[k]
         sc == Scenario(h.rq.path, h.rq.host, h.rq.now)
     IN IF h.rq.path \notin SxgRoutes THEN
          \E w \in {HttpError([NewResponseWriter EXCEPT !.header = probe.heap[h.wh]],
                              "signedExchangeHandler", StatusNotFound)} :
            probe' = [probe EXCEPT
                        !.heap[h.wh] = w.header,
                        !.handler[k] = [h EXCEPT !.at = "written"] @@
                                       [status |-> w.status, body |-> w.body,
                                        err |-> NoErr, panicked |-> FALSE]]
        ELSE
          probe' = [probe EXCEPT
                      !.heap[h.wh] = HeaderMerge(@, sc.w.header),
                      !.heap[h.rh] = HeaderMerge(@, sc.p.resHeader),
                      !.handler[k] =
                         IF sc.panicked
                         THEN [h EXCEPT !.at = "written", !.p = sc.p] @@
                              [status |-> 0, body |-> [tag |-> "none"],
                               err |-> NoErr, panicked |-> TRUE]
                         ELSE [h EXCEPT !.at = "routed", !.p = sc.p]]
  /\ ConcUnchanged

\* serveExchange(params, q, w) on the handler's own params and w.
Serve(k) ==
  /\ probe.stage = "conc"
  /\ probe.handler[k].at = "routed"
  /\ LET h == probe.handler[k] IN
     \E r \in {serveExchange([h.p EXCEPT !.resHeader = probe.heap[h.rh]],
                             [NewResponseWriter EXCEPT !.header = probe.heap[h.wh]])} :
       probe' = [probe EXCEPT
                   !.heap[h.rh] = r.params.resHeader,
                   !.heap[h.wh] = r.w.header,
                   !.handler[k] = [h EXCEPT !.at = "written", !.p = r.params] @@
                                  [status |-> r.w.status, body |-> r.w.body,
                                   err |-> r.err, panicked |-> r.panicked]]
  /\ ConcUnchanged

\* certHandler on the handler's own w.
ServeCert(k) ==
  /\ probe.stage = "conc"
  /\ probe.handler[k].at = "entered"
  /\ probe.handler[k].rq.kind = "cert"
  /\ LET h == probe.handler[k] IN
     \E w \in {certHandler([NewResponseWriter EXCEPT !.header = probe.heap[h.wh]],
                           h.rq.path)} :
       probe' = [probe EXCEPT
                   !.heap[h.wh] = w.header,
                   !.handler[k] = [h EXCEPT !.at = "written"] @@
                                  [status |-> w.status, body |-> w.body,
                                   err |-> NoErr, panicked |-> FALSE]]
  /\ ConcUnchanged

\* The handler returns; its goroutine takes the next request.
Return(k) ==
  /\ probe.stage = "conc"
  /\ probe.handler[k].at = "written"
  /\ probe' = [probe EXCEPT !.handler[k] = IdleHandler]
  /\ ConcUnchanged

NextConc ==
  \/ \E k \in Handlers : Begin(k)
  \/ \E k \in Handlers : Route(k)
  \/ \E k \in Handlers : Serve(k)
  \/ \E k \in Handlers : ServeCert(k)
  \/ \E k \in Handlers : Return(k)

SpecConc == InitConc /\ [][NextConc]_vars

\* ------------------------------------------------------------------- claims
\* What the last request was and what its response carries.
IsSxg == req.kind = "sxg"

IsCert == req.kind = "cert"

ServedExchange == resp.body.tag = "exchange"

\* The identity whose private key signed the served exchange.
SignerOf(e) == e.Signature.key.owner

\* init() met no error for either identity.
CleanStartup == \A i \in Ident : initLog[i].failed = {}

\* url.Parse accepts it and it is absolute with scheme https.
ValidHttpsUrl(u) ==
  ParseUrl(u).ok /\ ParseUrl(u).scheme = "https"

\* C1: for every (URL, payload, content type, cors flag) getHeaderIntegrity
\* returns the digest of the header block of the exchange createExchange
\* builds from the same inputs with the leaf routes' response headers.
C1_HeaderIntegrityMatchesExchange ==
  (probe.stage = "args" /\ probe.hiDone /\ probe.ceDone) =>
     /\ probe.ce.ok
     /\ probe.hi = Sha256Label(DumpExchangeHeaders(probe.ce.e))

C1_Witness ==
  /\ probe.stage = "args" /\ probe.hiDone /\ probe.ceDone
  /\ probe.in.cors /\ Len(probe.in.payload) = MaxPayloadLen
  /\ probe.ce.ok
  /\ probe.hi # <<>>

\* C2: a failed startup initialisation never reaches ListenAndServe: when the
\* process serves, no step of init() returned an error for either identity.
C2_FailFast ==
  pc = "serving" => \A i \in Ident : initLog[i].failed = {}

\* C3: when the OCSP fetch (the request to the responder or the read of its
\* answer) is the only thing that failed at startup, and for one identity
\* only, the process does not crash, the failed identity is
\* unavailable (its chain is not served with 200 and no exchange signed by it
\* is served) and the other identity is initialised.
C3_OcspFailureIsolated ==
  \A i \in Ident :
    (/\ pc # "boot"
     /\ initLog[i].failed = {"ocsp"} /\ initLog[i].ocsp.net \in {"unreachable", "readfail"}
     /\ initLog[Other(i)].failed = {}) =>
       /\ pc # "crashed"
       /\ initLog[Other(i)].ocsp.called /\ certMessage[Other(i)] # <<>>
       /\ (IsCert /\ req.path = certURLPath[i]) => resp.status # StatusOK
       /\ (IsSxg /\ ServedExchange) => SignerOf(resp.body.e) # i

\* C4: the certUrl path of every served exchange is a path on which
\* certHandler answers 200 with the chain artifact of the identity that
\* signed the exchange (stated for a startup that met no error).
C4_CertUrlServesSignerChain ==
  (CleanStartup /\ IsSxg /\ ServedExchange) =>
     LET c == certHandler(NewResponseWriter, resp.body.e.Signature.certUrl.path) IN
     /\ c.status = StatusOK
     /\ c.body = [tag |-> "chain", bytes |-> initLog[SignerOf(resp.body.e)].chain]

\* C5: certHandler answers the chain URL path with the cert-chain content
\* type, Cache-Control public, max-age=100 and the chain artifact built at
\* startup, at every request; every other path gets 404 and no chain bytes.
C5_CertHandlerServesCachedChain ==
  IsCert =>
    IF req.path = "/cert/cert.cbor" THEN
      /\ resp.status = 200
      /\ resp.header["Content-Type"] = <<"application/cert-chain+cbor">>
      /\ resp.header["Cache-Control"] = <<"public, max-age=100">>
      /\ resp.body = [tag |-> "chain", bytes |-> initLog["primary"].chain]
    ELSE
      /\ resp.status = 404
      /\ resp.body.tag # "chain"

C5_Witness ==
  /\ IsCert /\ req.path = "/cert/cert.cbor"
  /\ resp.status = 200
  /\ resp.body.tag = "chain" /\ resp.body.bytes # <<>>

\* C6: in signedExchangeHandler an error from createExchange yields 500 with
\* the error's message as body and not the signed-exchange content type, a
\* path that matches no scenario yields 404, and a response with status 200
\* carries a signed exchange built without error.
C6_FailuresAre500Or404 ==
  IsSxg =>
    /\ resp.err # NoErr =>
          /\ resp.status = 500
          /\ resp.body.tag = "text" /\ Head(resp.body.text) = resp.err
          /\ resp.header["Content-Type"] # <<SxgType>>
    /\ req.path \notin SxgRoutes => resp.status = 404
    /\ resp.status = 200 =>
          /\ resp.err = NoErr /\ ~resp.panicked
          /\ req.path \in SxgRoutes
          /\ ServedExchange /\ resp.body.e.Signature.signed

C6_Witness ==
  /\ IsSxg /\ req.path \in SxgRoutes
  /\ resp.err # NoErr /\ resp.status = 500

\* C7: when createExchange returns an error, the failing response carries no
\* scenario-specific header (link, cache-control) and no exchange bytes.
C7_NoPartialWrites ==
  (IsSxg /\ resp.err # NoErr) =>
     /\ resp.header["Link"] = <<>>
     /\ resp.header["Cache-Control"] = <<>>
     /\ ~ServedExchange

\* C8: in every served exchange the signature's date is the date of the
\* parameters and its expiry is that date plus exactly 24 hours.
C8_ValidityWindow ==
  (IsSxg /\ ServedExchange) =>
     /\ resp.body.e.Signature.date = params.date
     /\ resp.body.e.Signature.expires = params.date + 86400

C8_Witness ==
  /\ IsSxg /\ ServedExchange
  /\ req.now = MaxNow
  /\ resp.body.e.Signature.expires = req.now - 10 + 86400

\* C9: getOCSP returns an error and issues no request when the certificate
\* list has fewer than two entries or the leaf lists no OCSP responder; an
\* unreachable responder is an error return; bytes are returned only when the
\* HTTP exchange and the body read succeed.
C9_GetOCSPErrors ==
  \A i \in Ident :
    initLog[i].ocsp.called =>
      LET c == initLog[i].ocsp IN
      /\ (c.ncerts < 2 \/ c.nservers = 0) =>
            (c.err # NoErr /\ c.out = <<>> /\ c.requests = 0)
      /\ c.net = "unreachable" => (c.err # NoErr /\ c.out = <<>>)
      /\ c.out # <<>> => (c.net = "ok" /\ c.err = NoErr /\ c.requests = 1)
      /\ c.err = NoErr => c.out # <<>>

C9_Witness ==
  /\ initLog["primary"].ocsp.called /\ initLog["alt"].ocsp.called
  /\ initLog["primary"].ocsp.ncerts = 1 /\ initLog["primary"].ocsp.err # NoErr
  /\ initLog["alt"].ocsp.net = "unreachable" /\ initLog["alt"].ocsp.err # NoErr

\* C10: createExchange returns an error and emits no exchange whenever the
\* content URL, the certificate-chain URL or the validity URL is not a valid
\* absolute HTTPS URL (stated for a startup that met no error).
C10_RejectsInvalidUrls ==
  (CleanStartup /\ IsSxg /\ req.path \in SxgRoutes /\ ~Scenario(req.path, req.host, req.now).panicked) =>
     LET p == Scenario(req.path, req.host, req.now).p IN
     ~(ValidHttpsUrl(p.contentUrl) /\ ValidHttpsUrl(p.certUrl) /\ ValidHttpsUrl(p.validityUrl))
        => (createExchange(p).err # NoErr /\ resp.err # NoErr /\ ~ServedExchange)

\* The rel="allowed-alt-sxg" links among the Link values of a header map.
AllowedAltLinks(h) ==
  {h["Link"][n] : n \in {m \in 1..Len(h["Link"]) : h["Link"][m].rel = "allowed-alt-sxg"}}

C13_ParamsImmutable ==
  (CleanStartup /\ IsSxg /\ ServedExchange) =>
     LET p0 == Scenario(req.path, req.host, req.now).p
         first == createExchange(p0)
         second == createExchange(first.params)
     IN /\ params = p0
        /\ first.params = p0
        /\ second.ok
        /\ second.e.ResponseHeaders = first.e.ResponseHeaders

\* The header maps a handler in flight holds.
OwnMaps(h) ==
  IF h.at = "idle" THEN {}
  ELSE IF h.rq.kind = "sxg" THEN {h.wh, h.rh} ELSE {h.wh}

\* C14: under every interleaving of the handlers' steps the process-wide
\* variables (keys, certificates, chain artifacts, domain names, payload
\* slices) keep the values init() left; no two handlers in flight hold the
\* same header map; and every handler ends with the response and the params
\* it would have produced running alone.
C14_HandlersShareNoWrites ==
  probe.stage = "conc" =>
    /\ Globals = probe.boot
    /\ \A j \in Handlers, k \in Handlers :
         j # k => OwnMaps(probe.handler[j]) \cap OwnMaps(probe.handler[k]) = {}
    /\ \A k \in Handlers :
         LET h == probe.handler[k] IN
         /\ (h.at # "idle" /\ h.rq.kind = "sxg") => h.wh # h.rh
         /\ (h.at = "written" /\ h.rq.kind = "sxg") =>
              LET alone == signedExchangeHandler(h.rq.path, h.rq.host, h.rq.now) IN
              /\ h.panicked = alone.panicked /\ h.err = alone.err
              /\ [h.p EXCEPT !.resHeader = probe.heap[h.rh]] = alone.params
              /\ ~h.panicked =>
                    /\ probe.heap[h.wh] = alone.w.header
                    /\ h.status = alone.w.status /\ h.body = alone.w.body
         /\ (h.at = "written" /\ h.rq.kind = "cert") =>
              LET alone == certHandler(NewResponseWriter, h.rq.path) IN
              /\ probe.heap[h.wh] = alone.header
              /\ h.status = alone.status /\ h.body = alone.body

C14_Witness ==
  /\ probe.stage = "conc"
  /\ probe.handler[1].at = "written" /\ probe.handler[2].at = "routed"
  /\ probe.handler[1].rq.path = "/sxg/a_css.sxg" /\ probe.handler[1].body.tag = "exchange"
  /\ probe.handler[2].rq.path = "/sxg/v0.sxg"
  /\ probe.handler[2].wh < probe.handler[1].wh

\* C15: every request's exchangeParams has rand = nil and every served
\* exchange was signed with Rand = nil, never with zeroReader; zeroReader.Read
\* sets every byte of its buffer to zero and returns the buffer's length and
\* no error.
C15_ZeroReaderNeverUsed ==
  /\ (IsSxg /\ params # NoParams) => params.rand = "nil"
  /\ (IsSxg /\ ServedExchange) => resp.body.e.Signature.sig[4] = "nil"
  /\ \A b \in SeqsUpTo(Bytes, MaxPayloadLen) :
       /\ zeroReaderRead(b).n = Len(b) /\ zeroReaderRead(b).err = NoErr
       /\ Len(zeroReaderRead(b).b) = Len(b)
       /\ \A i \in 1..Len(b) : zeroReaderRead(b).b[i] = 0

C15_Witness ==
  /\ IsSxg /\ ServedExchange
  /\ req.path = "/sxg/cors_wapuro-mincho.woff2.sxg"
  /\ params.rand = "nil"
  /\ resp.body.e.Signature.sig[4] = "nil"

\* The rel="alternate" links among the Link values of a header map.
AlternateLinks(h) ==
  {h["Link"][n] : n \in {m \in 1..Len(h["Link"]) : h["Link"][m].rel = "alternate"}}

\* C16: every rel="alternate" link on a response of signedExchangeHandler
\* targets a path of the route table, the handler does not answer 404 there,
\* the scenario of that path has the link's anchor as its content URL, an
\* exchange served there is for that URL, and after a startup without error
\* a page that was served has all its alternates served.
C16_NoDanglingAlternate ==
  IsSxg =>
    \A l \in AlternateLinks(resp.header) :
      LET there == signedExchangeHandler(l.target[3], req.host, req.now) IN
      /\ l.target[1] = "https://" /\ l.target[2] = req.host
      /\ l.target[3] \in SxgRoutes
      /\ there.w.status # StatusNotFound
      /\ Scenario(l.target[3], req.host, req.now).p.contentUrl = l.anchor
      /\ there.w.body.tag = "exchange" => there.w.body.e.RequestURI = l.anchor
      /\ (CleanStartup /\ ServedExchange) => there.w.body.tag = "exchange"

C16_Witness ==
  /\ IsSxg /\ ServedExchange
  /\ req.path = "/sxg/amptestnocdn_js_img_vary_preload.sxg"
  /\ Cardinality(AlternateLinks(resp.header)) = 5
  /\ \E l \in AlternateLinks(resp.header) :
       /\ l.target[3] = "/sxg/nikko_640_webp.sxg"
       /\ signedExchangeHandler(l.target[3], req.host, req.now).w.body.tag = "exchange"

ErrorRoutes ==
  {"/sxg/amptestnocdn_js_preload_error.sxg", "/sxg/amptestnocdn_js_img_preload_error.sxg"}

\* The header-integrity digest of the exchange the handler serves on the
\* route an alternate link targets; <<>> when it serves none.
ServedIntegrity(alt, host, now) ==
  LET there == signedExchangeHandler(alt.target[3], host, now) IN
  IF there.w.body.tag = "exchange"
  THEN Sha256Label(DumpExchangeHeaders(there.w.body.e))
  ELSE <<>>

\* C17: on every served scenario other than the two *_error ones, each
\* allowed-alt-sxg link's header-integrity equals the digest of the header
\* block of the exchange served on the route of the alternate link with the
\* same anchor URL and variant key (stated for a startup that met no error).
C17_AdvertisedIntegrityMatchesServed ==
  (CleanStartup /\ IsSxg /\ ServedExchange /\ req.path \notin ErrorRoutes) =>
     \A l \in AllowedAltLinks(resp.body.e.ResponseHeaders) :
       \A a \in AlternateLinks(resp.header) :
         (a.anchor = l.target /\ a.variantKey = l.variantKey) =>
            l.integrity = ServedIntegrity(a, req.host, req.now)

\* C18: every served exchange is built from one signing identity: the key
\* that signed it, the certificates, the host of the content URL, the host of
\* the validity URL and the path of the certificate-chain URL are all the
\* primary identity's or all the alternate identity's.
C18_OneIdentityPerExchange ==
  (IsSxg /\ ServedExchange) =>
     \E i \in Ident :
       LET e == resp.body.e IN
       /\ e.Signature.key = [owner |-> i]
       /\ params.prvKey = prvKey[i]
       /\ params.certs = certs[i]
       /\ \A j \in 1..Len(params.certs) : params.certs[j].raw[1] = i
       /\ e.RequestURI[2] = demoDomainName[i]
       /\ e.Signature.validityUrl.host = demoDomainName[i]
       /\ e.Signature.certUrl.path = certURLPath[i]
       /\ CleanStartup =>
            /\ e.RequestURI[2] = CommonName[i]
            /\ e.Signature.validityUrl.host = CommonName[i]
            /\ e.Signature.certSha256 = <<"sha256", <<i, 1>>>>

C18_Witness ==
  /\ CleanStartup /\ IsSxg /\ ServedExchange
  /\ req.path = "/sxg/wapuro-mincho.woff2.sxg"
  /\ SignerOf(resp.body.e) = "alt"
  /\ resp.body.e.RequestURI[2] = "alt.example.test"
  /\ resp.body.e.Signature.certUrl.path = "/cert/alt_cert.cbor"
====
